---- MODULE Spec2Model ----
(***************************************************************************)
(* Model of bin/testcode.py: the run_tests scheduler (sequential,          *)
(* concurrent and cluster modes, lines 246-314), compare_tests (317-341),  *)
(* diff_tests (343-373), make_benchmarks (410-466), end_status (489-538)   *)
(* and the part of main that chains them (564-584).                        *)
(*                                                                         *)
(* Each worker thread of run_tests is a process whose position is pc[i];   *)
(* every blocking primitive (Lock.acquire, BoundedSemaphore.acquire,       *)
(* Thread.join) is one atomic step that is enabled only when the primitive *)
(* can proceed.  test.run_test, test.verify_job and test.get_status live   *)
(* in the testcode2 library, which is not part of bin/testcode.py; they    *)
(* are modelled by their outcomes.                                         *)
(***************************************************************************)
EXTENDS Integers, Sequences, FiniteSets, TLC

\* ---------------------------------------------------------------- bounds
MaxTests == 2
MaxUnits == 5
MaxTot == 5
MaxSubRuns == 4
MaxPrograms == 2

\* default of --total-processors (line 170)
DefaultTotNprocs == -1

VARIABLES
    tests,          \* tests[i] = test.nprocs of the i-th test of the list
    inputs_args,    \* inputs_args[i] = number of (inp, args) pairs of test i
    opt_tot_nprocs, \* options.tot_nprocs, as given on the command line
    cluster_queue,  \* TRUE iff options.queue_system is set
    verbose,        \* options.verbose
    actions,        \* the actions given to main
    tot_nprocs,     \* run_tests' local tot_nprocs (reassigned at line 290)
    semaphore,      \* value of the BoundedSemaphore; -1 while none was created
    slock,          \* holder of the request lock, 0 when free
    mainpc,         \* position of the main thread
    idx,            \* loop index of the main thread (for job / for test)
    pc,             \* pc[i]: position of test i's run (worker or direct call)
    acquired,       \* acquired[i]: semaphore units test i's worker holds
    status,         \* status[i][k]: verdict recorded for sub-run k of test i
    test_file,      \* test_file[i][k]: the k-th output file of test i exists
    outcome,        \* outcome[i][k]: what comparing that file to its benchmark gives
    cmp,            \* <<test, sub-run>> cursor of compare_tests
    nskipped,       \* compare_tests' nskipped
    ret_val,        \* main's ret_val
    bench_file,     \* bench_file[i][k]: the k-th benchmark file of test i exists
    test_programs,  \* test_programs[p]: program p has a (known) vcs
    test_program,   \* test_program[i]: key of the program of test i
    writes,         \* writes[i]: the threads that wrote status[i], in order
    verified,       \* sub-runs compare_tests called verify_job for
    ncompare,       \* number of calls of compare_tests that returned
    first,          \* <<status, nskipped>> when the first call returned
    dif,            \* <<test, sub-run>> cursor of diff_tests
    diffed,         \* sub-runs diff_tests ran the diff program for
    ans,            \* make_benchmarks' ans
    vcs,            \* make_benchmarks' vcs: code id per program key
    benchmark,      \* make_benchmarks' benchmark: the new label
    created,        \* tests create_new_benchmarks was called for
    userconfig      \* the benchmark id in the userconfig file

vars == <<tests, inputs_args, opt_tot_nprocs, cluster_queue, verbose, actions,
          tot_nprocs, semaphore, slock, mainpc, idx, pc, acquired, status,
          test_file, outcome, cmp, nskipped, ret_val, bench_file,
          test_programs, test_program, writes, verified, ncompare, first, dif,
          diffed, ans, vcs, benchmark, created, userconfig>>

inputVars == <<tests, inputs_args, opt_tot_nprocs, cluster_queue, verbose, actions,
               bench_file, test_programs, test_program>>
fileVars == <<test_file, outcome>>
gateVars == <<semaphore, slock, acquired>>
cmpVars == <<test_file, outcome, cmp, nskipped>>
callVars == <<verified, ncompare, first>>
diffVars == <<dif, diffed>>
mbVars == <<ans, vcs, benchmark, created, userconfig>>
auxVars == <<writes, callVars, diffVars, mbVars>>

N == Len(tests)
Tests == 1..N

\* ------------------------------------------------------- pure helpers
RECURSIVE SumSeq(_)
SumSeq(s) == IF s = <<>> THEN 0 ELSE Head(s) + SumSeq(Tail(s))

RECURSIVE MaxSeq(_)
MaxSeq(s) == IF Len(s) = 1 THEN s[1]
             ELSE LET m == MaxSeq(Tail(s)) IN IF Head(s) > m THEN Head(s) ELSE m

\* line 278: nprocs_used = max(1, test.nprocs)
nprocs_used_plus_one(i) == tests[i] + 1

nprocs_used(i) == IF tests[i] < 1 THEN 1 ELSE tests[i]

\* ------------------------------------------------------------- Init
\* The test lists: at most MaxTests tests, nprocs >= 0 (0: a serial program),
\* requesting at most MaxUnits units (max(1, nprocs)) in total.
TestLists ==
    {t \in UNION {[1..n -> 0..MaxUnits] : n \in 1..MaxTests} :
        SumSeq([i \in 1..Len(t) |-> IF t[i] < 1 THEN 1 ELSE t[i]]) <= MaxUnits}

NoStatus == <<0, 0, 0>>

\* the benchmark id the userconfig file holds before make-benchmarks
OldBenchmark == <<0>>

\* every benchmark file exists
AllBenchmarks == bench_file = [i \in Tests |-> [k \in 1..inputs_args[i] |-> TRUE]]

\* userconfig defines one program, under version control; every test is its
OneProgram == test_programs = <<TRUE>> /\ test_program = [i \in Tests |-> 1]

InitCommon ==
    /\ tot_nprocs = opt_tot_nprocs
    /\ semaphore = -1
    /\ slock = 0
    /\ mainpc = "main"
    /\ idx = 0
    /\ pc = [i \in Tests |-> "new"]
    /\ acquired = [i \in Tests |-> 0]
    /\ status = [i \in Tests |-> [k \in 1..inputs_args[i] |-> "none"]]
    /\ cmp = <<0, 0>>
    /\ nskipped = 0
    /\ ret_val = 0
    /\ writes = [i \in Tests |-> <<>>]
    /\ verified = {}
    /\ ncompare = 0
    /\ first = <<>>
    /\ dif = <<0, 0>>
    /\ diffed = {}
    /\ ans = ""
    /\ vcs = <<>>
    /\ benchmark = <<>>
    /\ created = {}
    /\ userconfig = OldBenchmark

\* A 'run' invocation with any scheduling mode; one sub-run per test.
Init ==
    /\ tests \in TestLists
    /\ inputs_args = [i \in Tests |-> 1]
    /\ opt_tot_nprocs \in DefaultTotNprocs..MaxTot
    /\ cluster_queue \in BOOLEAN
    /\ verbose = TRUE
    /\ actions = {"run"}
    /\ test_file = [i \in Tests |-> [k \in 1..inputs_args[i] |-> FALSE]]
    /\ outcome = [i \in Tests |-> [k \in 1..inputs_args[i] |-> "failed"]]
    /\ AllBenchmarks
    /\ OneProgram
    /\ InitCommon

\* ------------------------------------------------- run_tests: set-up
\* lines 288-310 up to the creation of the threads; the else branch (312)
\* enters the sequential loop.
RunTestsEnterNoCheck ==
    /\ mainpc = "main"
    /\ "run" \in actions
    /\ LET tot == IF opt_tot_nprocs <= 0 /\ cluster_queue
                  THEN SumSeq(tests) ELSE opt_tot_nprocs
       IN /\ tot_nprocs' = tot
          /\ IF tot > 0
             THEN /\ semaphore' = tot
                  /\ mainpc' = "start"
             ELSE /\ semaphore' = semaphore
                  /\ mainpc' = "seq"
    /\ idx' = 1
    /\ UNCHANGED <<inputVars, auxVars, slock, pc, acquired, status, cmpVars, ret_val>>

RunTestsEnterAlwaysSum ==
    /\ mainpc = "main"
    /\ "run" \in actions
    /\ LET tot == IF opt_tot_nprocs <= 0
                  THEN SumSeq(tests) ELSE opt_tot_nprocs
       IN /\ tot_nprocs' = tot
          /\ IF tot > 0
             THEN IF MaxSeq(tests) > tot
                  THEN /\ mainpc' = "fatal"
                       /\ UNCHANGED <<semaphore, idx>>
                  ELSE /\ semaphore' = tot
                       /\ mainpc' = "start"
                       /\ idx' = 1
             ELSE /\ mainpc' = "seq"
                  /\ idx' = 1
                  /\ UNCHANGED semaphore
    /\ UNCHANGED <<inputVars, auxVars, slock, pc, acquired, status, cmpVars, ret_val>>

RunTestsEnter ==
    /\ mainpc = "main"
    /\ "run" \in actions
    /\ LET tot == IF opt_tot_nprocs <= 0 /\ cluster_queue
                  THEN SumSeq(tests) ELSE opt_tot_nprocs
       IN /\ tot_nprocs' = tot
          /\ IF tot > 0
             THEN IF MaxSeq(tests) > tot
                  THEN \* raise TestCodeError (line 299)
                       /\ mainpc' = "fatal"
                       /\ UNCHANGED <<semaphore, idx>>
                  ELSE /\ semaphore' = tot
                       /\ mainpc' = "start"
                       /\ idx' = 1
             ELSE /\ mainpc' = "seq"
                  /\ idx' = 1
                  /\ UNCHANGED semaphore
    /\ UNCHANGED <<inputVars, auxVars, slock, pc, acquired, status, cmpVars, ret_val>>

\* lines 307-308: for job in jobs: job.start()
JobStart ==
    /\ mainpc = "start"
    /\ pc' = [pc EXCEPT ![idx] = "lock"]
    /\ IF idx = N THEN mainpc' = "join" /\ idx' = 1
                  ELSE mainpc' = mainpc /\ idx' = idx + 1
    /\ UNCHANGED <<inputVars, auxVars, tot_nprocs, gateVars, status, cmpVars, ret_val>>

\* lines 309-310 with a join that does not wait for the thread
JobJoinNoWait ==
    /\ mainpc = "join"
    /\ IF idx = N THEN mainpc' = "ran" /\ idx' = 0
                  ELSE mainpc' = mainpc /\ idx' = idx + 1
    /\ UNCHANGED <<inputVars, auxVars, tot_nprocs, gateVars, pc, status, cmpVars, ret_val>>

\* lines 309-310: for job in jobs: job.join()
JobJoin ==
    /\ mainpc = "join"
    /\ pc[idx] \in {"done", "dead"}
    /\ IF idx = N THEN mainpc' = "ran" /\ idx' = 0
                  ELSE mainpc' = mainpc /\ idx' = idx + 1
    /\ UNCHANGED <<inputVars, auxVars, tot_nprocs, gateVars, pc, status, cmpVars, ret_val>>

\* ------------------------------------------------ the library's Test
Outcomes == {"passed", "warning", "failed"}

\* A verified sub-run counts one in ran and in at most one of passed, warned;
\* a sub-run with no verdict ("none") counts nowhere.
StatusOf(o) == <<IF o = "passed" THEN 1 ELSE 0, IF o = "warning" THEN 1 ELSE 0,
                 IF o = "none" THEN 0 ELSE 1>>

AddStatus(a, b) == <<a[1] + b[1], a[2] + b[2], a[3] + b[3]>>

RECURSIVE Tally(_, _)
Tally(o, k) == IF k = 0 THEN NoStatus ELSE AddStatus(Tally(o, k - 1), StatusOf(o[k]))

\* test.get_status(): (passed, warned, ran) counted over the sub-runs' verdicts
get_status(i) == Tally(status[i], inputs_args[i])

\* the thread that executes the current step of test i's run_test
Caller(i) == IF mainpc \in {"start", "join"} THEN i ELSE 0

\* test.run_test returning: every sub-run was executed, its output file
\* written and verified, and the verdicts were recorded in the test's status.
RunTestReturns(i) ==
    \E o \in [1..inputs_args[i] -> Outcomes] :
        /\ outcome' = [outcome EXCEPT ![i] = o]
        /\ test_file' = [test_file EXCEPT ![i] = [k \in 1..inputs_args[i] |-> TRUE]]
        /\ status' = [status EXCEPT ![i] = o]
        /\ writes' = [writes EXCEPT ![i] = Append(@, Caller(i))]

\* ------------------------------------------- run_tests: worker thread
\* line 276: semaphore_lock.acquire()
LockAcquireUnguarded(i) ==
    /\ pc[i] = "lock"
    /\ slock' = i
    /\ pc' = [pc EXCEPT ![i] = "acq"]
    /\ UNCHANGED <<inputVars, auxVars, tot_nprocs, semaphore, acquired, mainpc, idx,
                   status, cmpVars, ret_val>>

LockAcquire(i) ==
    /\ pc[i] = "lock"
    /\ slock = 0
    /\ slock' = i
    /\ pc' = [pc EXCEPT ![i] = "acq"]
    /\ UNCHANGED <<inputVars, auxVars, tot_nprocs, semaphore, acquired, mainpc, idx,
                   status, cmpVars, ret_val>>

\* lines 279-280: one iteration of the loop, semaphore.acquire() (blocking)
SemAcquireNonBlocking(i) ==
    /\ pc[i] = "acq"
    /\ acquired[i] < nprocs_used(i)
    /\ semaphore' = IF semaphore > 0 THEN semaphore - 1 ELSE semaphore
    /\ acquired' = [acquired EXCEPT ![i] = @ + 1]
    /\ UNCHANGED <<inputVars, auxVars, tot_nprocs, slock, mainpc, idx, pc, status,
                   cmpVars, ret_val>>

SemAcquire(i) ==
    /\ pc[i] = "acq"
    /\ acquired[i] < nprocs_used(i)
    /\ semaphore > 0
    /\ semaphore' = semaphore - 1
    /\ acquired' = [acquired EXCEPT ![i] = @ + 1]
    /\ UNCHANGED <<inputVars, auxVars, tot_nprocs, slock, mainpc, idx, pc, status,
                   cmpVars, ret_val>>

\* line 281 missing: the worker keeps semaphore_lock while it runs its test
LockReleaseKept(i) ==
    /\ pc[i] = "acq"
    /\ acquired[i] = nprocs_used(i)
    /\ slock' = slock
    /\ pc' = [pc EXCEPT ![i] = "run"]
    /\ UNCHANGED <<inputVars, auxVars, tot_nprocs, semaphore, acquired, mainpc, idx,
                   status, cmpVars, ret_val>>

\* line 281 and the call of line 283: the loop is over, semaphore_lock.release(),
\* test.run_test(...) is entered
LockRelease(i) ==
    /\ pc[i] = "acq"
    /\ acquired[i] = nprocs_used(i)
    /\ slock' = 0
    /\ pc' = [pc EXCEPT ![i] = "run"]
    /\ UNCHANGED <<inputVars, auxVars, tot_nprocs, semaphore, acquired, mainpc, idx,
                   status, cmpVars, ret_val>>

\* line 283: test.run_test returns to the worker
WorkerRunReturn(i) ==
    /\ mainpc \in {"start", "join"}
    /\ pc[i] = "run"
    /\ RunTestReturns(i)
    /\ pc' = [pc EXCEPT ![i] = "rel"]
    /\ UNCHANGED <<inputVars, callVars, diffVars, mbVars, tot_nprocs, gateVars,
                   mainpc, idx, cmp, nskipped, ret_val>>

\* line 283: test.run_test raises; nothing catches it in run_test_worker, so
\* the thread ends there and lines 285-286 are not executed.
WorkerRunRaise(i) ==
    /\ mainpc \in {"start", "join"}
    /\ pc[i] = "run"
    /\ pc' = [pc EXCEPT ![i] = "dead"]
    /\ UNCHANGED <<inputVars, auxVars, tot_nprocs, gateVars, mainpc, idx, status,
                   cmpVars, ret_val>>

\* lines 285-286 with a loop of nprocs_used + 1 iterations
SemReleaseOneMore(i) ==
    /\ pc[i] = "rel"
    /\ IF semaphore < tot_nprocs
       THEN /\ semaphore' = semaphore + 1
            /\ acquired' = [acquired EXCEPT ![i] = @ - 1]
            /\ pc' = [pc EXCEPT ![i] = IF acquired[i] = 0 THEN "done" ELSE "rel"]
       ELSE /\ pc' = [pc EXCEPT ![i] = "dead"]
            /\ UNCHANGED <<semaphore, acquired>>
    /\ UNCHANGED <<inputVars, auxVars, tot_nprocs, slock, mainpc, idx, status, cmpVars,
                   ret_val>>

\* lines 285-286: one iteration of the loop, semaphore.release(); a
\* BoundedSemaphore raises ValueError when released above its initial value.
SemRelease(i) ==
    /\ pc[i] = "rel"
    /\ IF semaphore < tot_nprocs
       THEN /\ semaphore' = semaphore + 1
            /\ acquired' = [acquired EXCEPT ![i] = @ - 1]
            /\ pc' = [pc EXCEPT ![i] = IF acquired[i] = 1 THEN "done" ELSE "rel"]
       ELSE /\ pc' = [pc EXCEPT ![i] = "dead"]
            /\ UNCHANGED <<semaphore, acquired>>
    /\ UNCHANGED <<inputVars, auxVars, tot_nprocs, slock, mainpc, idx, status, cmpVars,
                   ret_val>>

\* --------------------------------------- run_tests: sequential branch
\* lines 313-314: the next test.run_test(verbose, cluster_queue) is called
SeqCall ==
    /\ mainpc = "seq"
    /\ pc[idx] = "new"
    /\ pc' = [pc EXCEPT ![idx] = "run"]
    /\ UNCHANGED <<inputVars, auxVars, tot_nprocs, gateVars, mainpc, idx, status,
                   cmpVars, ret_val>>

\* ... and returns; after the last test run_tests returns
SeqReturn ==
    /\ mainpc = "seq"
    /\ pc[idx] = "run"
    /\ RunTestReturns(idx)
    /\ pc' = [pc EXCEPT ![idx] = "done"]
    /\ IF idx = N THEN mainpc' = "ran" /\ idx' = 0
                  ELSE mainpc' = mainpc /\ idx' = idx + 1
    /\ UNCHANGED <<inputVars, callVars, diffVars, mbVars, tot_nprocs, gateVars,
                   cmp, nskipped, ret_val>>

\* ... or raises: the exception leaves the loop, run_tests and main
SeqRaise ==
    /\ mainpc = "seq"
    /\ pc[idx] = "run"
    /\ pc' = [pc EXCEPT ![idx] = "dead"]
    /\ mainpc' = "aborted"
    /\ UNCHANGED <<inputVars, auxVars, tot_nprocs, gateVars, idx, status, cmpVars, ret_val>>

\* ------------------------------------------------------- end_status
\* lines 498-501 reading the triple back to front
ColumnReversed(k) == [i \in Tests |-> get_status(i)[4 - k]]

\* lines 498-501: status[0], status[1], status[2] of every test
Column(k) == [i \in Tests |-> get_status(i)[k]]

\* lines 498-503 and 533-538
end_status_no_warnings(skipped, verb) ==
    LET npassed == SumSeq(Column(1))
        nran == SumSeq(Column(3))
    IN IF nran # npassed THEN 1 ELSE 0

\* lines 533-538 treating a skipped sub-run as a failure
end_status_skips_fail(skipped, verb) ==
    LET npassed0 == SumSeq(Column(1))
        nwarning == SumSeq(Column(2))
        nran == SumSeq(Column(3))
        npassed == npassed0 + nwarning
    IN IF nran # npassed \/ skipped > 0 THEN 1 ELSE 0

end_status(skipped, verb) ==
    LET npassed0 == SumSeq(Column(1))
        nwarning == SumSeq(Column(2))
        nran == SumSeq(Column(3))
        npassed == npassed0 + nwarning
    IN IF nran # npassed THEN 1 ELSE 0

\* ------------------------------------------------------------- main
\* line 567 when 'run' is not among the actions
SkipRun ==
    /\ mainpc = "main"
    /\ "run" \notin actions
    /\ mainpc' = "at_compare"
    /\ UNCHANGED <<inputVars, auxVars, tot_nprocs, gateVars, idx, pc, status, cmpVars,
                   ret_val>>

\* line 569: ret_val = end_status(tests, 0, verbose)
EndStatusRun ==
    /\ mainpc = "ran"
    /\ ret_val' = end_status(0, verbose)
    /\ mainpc' = "at_compare"
    /\ UNCHANGED <<inputVars, auxVars, tot_nprocs, gateVars, idx, pc, status, cmpVars>>

\* ---------------------------------------------------- compare_tests
\* lines 324-326: a call of compare_tests starts
CompareCallKeepCount ==
    /\ nskipped' = nskipped
    /\ cmp' = <<1, 1>>
    /\ verified' = {}
    /\ mainpc' = "comparing"
    /\ UNCHANGED <<inputVars, writes, ncompare, first, diffVars, mbVars, tot_nprocs,
                   gateVars, idx, pc, status, fileVars, ret_val>>

CompareCall ==
    /\ nskipped' = 0
    /\ cmp' = <<1, 1>>
    /\ verified' = {}
    /\ mainpc' = "comparing"
    /\ UNCHANGED <<inputVars, writes, ncompare, first, diffVars, mbVars, tot_nprocs,
                   gateVars, idx, pc, status, fileVars, ret_val>>

\* line 571: main calls compare_tests
CompareEnter ==
    /\ mainpc = "at_compare"
    /\ "compare" \in actions
    /\ CompareCall

\* test.verify_job(inp, args, verbose): the verdict it records; without the
\* benchmark file there is nothing the output can agree with
verify_job(t, k) == IF bench_file[t][k] THEN outcome[t][k] ELSE "failed"

\* lines 327-339 with line 333 asking for the benchmark file as well
CompareStepBothFiles ==
    /\ mainpc = "comparing"
    /\ LET t == cmp[1]
           k == cmp[2]
       IN /\ IF test_file[t][k] /\ bench_file[t][k]
             THEN /\ status' = [status EXCEPT ![t][k] = verify_job(t, k)]
                  /\ writes' = [writes EXCEPT ![t] = Append(@, 0)]
                  /\ verified' = verified \cup {<<t, k>>}
                  /\ nskipped' = nskipped
             ELSE /\ nskipped' = nskipped + 1
                  /\ UNCHANGED <<status, writes, verified>>
          /\ IF k < inputs_args[t] THEN cmp' = <<t, k + 1>> /\ mainpc' = mainpc
             ELSE IF t < N THEN cmp' = <<t + 1, 1>> /\ mainpc' = mainpc
             ELSE cmp' = <<0, 0>> /\ mainpc' = "compared"
          /\ IF k = inputs_args[t] /\ t = N
             THEN /\ ncompare' = ncompare + 1
                  /\ first' = IF ncompare = 0 THEN <<status', nskipped'>> ELSE first
             ELSE UNCHANGED <<ncompare, first>>
    /\ UNCHANGED <<inputVars, diffVars, mbVars, tot_nprocs, gateVars, idx, pc,
                   fileVars, ret_val>>

\* lines 327-341: one (inp, args) of one test; after the last one
\* compare_tests returns nskipped
CompareStep ==
    /\ mainpc = "comparing"
    /\ LET t == cmp[1]
           k == cmp[2]
       IN /\ IF test_file[t][k]
             THEN \* test.verify_job(inp, args, verbose)
                  /\ status' = [status EXCEPT ![t][k] = verify_job(t, k)]
                  /\ writes' = [writes EXCEPT ![t] = Append(@, 0)]
                  /\ verified' = verified \cup {<<t, k>>}
                  /\ nskipped' = nskipped
             ELSE /\ nskipped' = nskipped + 1
                  /\ UNCHANGED <<status, writes, verified>>
          /\ IF k < inputs_args[t] THEN cmp' = <<t, k + 1>> /\ mainpc' = mainpc
             ELSE IF t < N THEN cmp' = <<t + 1, 1>> /\ mainpc' = mainpc
             ELSE cmp' = <<0, 0>> /\ mainpc' = "compared"
          /\ IF k = inputs_args[t] /\ t = N
             THEN /\ ncompare' = ncompare + 1
                  /\ first' = IF ncompare = 0 THEN <<status', nskipped'>> ELSE first
             ELSE UNCHANGED <<ncompare, first>>
    /\ UNCHANGED <<inputVars, diffVars, mbVars, tot_nprocs, gateVars, idx, pc,
                   fileVars, ret_val>>

\* compare_tests(tests, verbose) is called once more on the same tests
CompareAgain ==
    /\ mainpc = "compared"
    /\ ncompare = 1
    /\ CompareCall

\* line 572: ret_val = end_status(tests, nskipped, verbose)
EndStatusCompare ==
    /\ mainpc = "compared"
    /\ ret_val' = end_status(nskipped, verbose)
    /\ mainpc' = "at_diff"
    /\ UNCHANGED <<inputVars, auxVars, tot_nprocs, gateVars, idx, pc, status, cmpVars>>

\* ------------------------------------------------------- diff_tests
\* main is at line 573
AtDiff == mainpc = "at_diff" \/ (mainpc = "at_compare" /\ "compare" \notin actions)

\* line 574: main calls diff_tests
DiffEnter ==
    /\ AtDiff
    /\ "diff" \in actions
    /\ dif' = <<1, 1>>
    /\ diffed' = {}
    /\ mainpc' = "diffing"
    /\ UNCHANGED <<inputVars, writes, callVars, mbVars, tot_nprocs, gateVars, idx,
                   pc, status, cmpVars, ret_val>>

\* lines 354-372 with the test at line 366 looking at the test file only
DiffStepTestFileOnly ==
    /\ mainpc = "diffing"
    /\ LET t == dif[1]
           k == dif[2]
       IN /\ diffed' = IF ~test_file[t][k] THEN diffed ELSE diffed \cup {<<t, k>>}
          /\ IF k < inputs_args[t] THEN dif' = <<t, k + 1>> /\ mainpc' = mainpc
             ELSE IF t < N THEN dif' = <<t + 1, 1>> /\ mainpc' = mainpc
             ELSE dif' = <<0, 0>> /\ mainpc' = "at_mb"
    /\ UNCHANGED <<inputVars, writes, callVars, mbVars, tot_nprocs, gateVars, idx,
                   pc, status, cmpVars, ret_val>>

\* lines 354-372: one (inp, args) of one test; the diff program is run
\* (Popen, wait) unless one of the two files does not exist
DiffStep ==
    /\ mainpc = "diffing"
    /\ LET t == dif[1]
           k == dif[2]
       IN /\ diffed' = IF ~test_file[t][k] \/ ~bench_file[t][k] THEN diffed
                       ELSE diffed \cup {<<t, k>>}
          /\ IF k < inputs_args[t] THEN dif' = <<t, k + 1>> /\ mainpc' = mainpc
             ELSE IF t < N THEN dif' = <<t + 1, 1>> /\ mainpc' = mainpc
             ELSE dif' = <<0, 0>> /\ mainpc' = "at_mb"
    /\ UNCHANGED <<inputVars, writes, callVars, mbVars, tot_nprocs, gateVars, idx,
                   pc, status, cmpVars, ret_val>>

\* --------------------------------------------------- make_benchmarks
Programs == DOMAIN test_programs

\* main is at line 581
AtMakeBenchmarks == mainpc = "at_mb" \/ (AtDiff /\ "diff" \notin actions)

\* lines 421-425 never asking
MakeBenchmarksEnterNoQuestion ==
    /\ AtMakeBenchmarks
    /\ "make-benchmarks" \in actions
    /\ mainpc' = "mb_vcs"
    /\ UNCHANGED <<inputVars, auxVars, tot_nprocs, gateVars, idx, pc, status,
                   cmpVars, ret_val>>

\* lines 421-425: all tests passed?
MakeBenchmarksEnter ==
    /\ AtMakeBenchmarks
    /\ "make-benchmarks" \in actions
    /\ LET npassed == SumSeq(Column(1))
           nwarning == SumSeq(Column(2))
           nran == SumSeq(Column(3))
       IN mainpc' = IF npassed # nran THEN "mb_ask" ELSE "mb_vcs"
    /\ UNCHANGED <<inputVars, auxVars, tot_nprocs, gateVars, idx, pc, status,
                   cmpVars, ret_val>>

\* lines 426-432: the question is repeated until the answer is y or n;
\* anything but y returns None
MakeBenchmarksAnswer ==
    /\ mainpc = "mb_ask"
    /\ \E a \in {"y", "n"} :
          /\ ans' = a
          /\ mainpc' = IF a = "y" THEN "mb_vcs" ELSE "mb_none"
    /\ UNCHANGED <<inputVars, writes, callVars, diffVars, vcs, benchmark, created,
                   userconfig, tot_nprocs, gateVars, idx, pc, status, cmpVars,
                   ret_val>>

\* program.vcs.get_code_id(): what the program's repository reports
get_code_id(p) == p

\* what the operator may type at 'Enter revision id for ...'
ManualIds == {11, 12}

\* the orders in which a dict of the programs can be iterated
ItemOrders == {o \in [Programs -> Programs] : \A p, q \in Programs : o[p] = o[q] => p = q}

\* lines 449-451: '.'.join of '%s-%s' % (key, code_id); a label is the
\* sequence of its fields
RECURSIVE JoinItems(_, _, _)
JoinItems(ids, order, n) ==
    IF n = 0 THEN <<>>
    ELSE JoinItems(ids, order, n - 1) \o <<order[n], ids[order[n]]>>

\* lines 445-451 with the single form chosen by the programs of the tests
LabelOfUsedPrograms(ids, order) ==
    IF Cardinality({test_program[i] : i \in Tests}) = 1
    THEN <<ids[test_program[1]]>>
    ELSE JoinItems(ids, order, Len(ids))

\* lines 445-451: benchmark label from vcs info
Label(ids, order) ==
    IF Len(ids) = 1 THEN <<ids[1]>>
    ELSE JoinItems(ids, order, Len(ids))

\* lines 434-466: the code ids, the label, the new benchmarks of every test
\* and the userconfig file (its path, options.userconfig, is not empty)
MakeBenchmarksCreate ==
    /\ mainpc = "mb_vcs"
    /\ \E manual \in [Programs -> ManualIds], order \in ItemOrders :
          LET ids == [p \in Programs |-> IF test_programs[p] THEN get_code_id(p)
                                         ELSE manual[p]]
          IN /\ vcs' = ids
             /\ benchmark' = Label(ids, order)
             /\ userconfig' = Label(ids, order)
    /\ created' = Tests
    /\ mainpc' = "mb_done"
    /\ UNCHANGED <<inputVars, writes, callVars, diffVars, ans, tot_nprocs, gateVars,
                   idx, pc, status, cmpVars, ret_val>>

\* ------------------------------------------------------------- main
\* no action is left: main is at line 584
AtReturn ==
    \/ mainpc \in {"mb_done", "mb_none"}
    \/ AtMakeBenchmarks /\ "make-benchmarks" \notin actions

\* line 584: return ret_val
MainReturn ==
    /\ AtReturn
    /\ mainpc' = "exit"
    /\ UNCHANGED <<inputVars, auxVars, tot_nprocs, gateVars, idx, pc, status, cmpVars,
                   ret_val>>
\* ------------------------------------------------------ specifications
Next ==
    \/ RunTestsEnter
    \/ JobStart
    \/ JobJoin
    \/ \E i \in Tests : LockAcquire(i)
    \/ \E i \in Tests : SemAcquire(i)
    \/ \E i \in Tests : LockRelease(i)
    \/ \E i \in Tests : WorkerRunReturn(i)
    \/ \E i \in Tests : WorkerRunRaise(i)
    \/ \E i \in Tests : SemRelease(i)
    \/ SeqCall
    \/ SeqReturn
    \/ SeqRaise
    \/ EndStatusRun
    \/ MainReturn

Spec == Init /\ [][Next]_vars

\* The part of Next that a concurrent run of run_tests takes.
NextConcurrent ==
    \/ RunTestsEnter
    \/ JobStart
    \/ JobJoin
    \/ \E i \in Tests : LockAcquire(i)
    \/ \E i \in Tests : SemAcquire(i)
    \/ \E i \in Tests : LockRelease(i)
    \/ \E i \in Tests : WorkerRunReturn(i)
    \/ \E i \in Tests : WorkerRunRaise(i)
    \/ \E i \in Tests : SemRelease(i)

\* A concurrent local run: --total-processors given, no queueing system.
InitConcurrent ==
    /\ tests \in TestLists
    /\ inputs_args = [i \in Tests |-> 1]
    /\ opt_tot_nprocs \in 1..MaxTot
    /\ cluster_queue = FALSE
    /\ verbose = TRUE
    /\ actions = {"run"}
    /\ test_file = [i \in Tests |-> [k \in 1..inputs_args[i] |-> FALSE]]
    /\ outcome = [i \in Tests |-> [k \in 1..inputs_args[i] |-> "failed"]]
    /\ AllBenchmarks
    /\ OneProgram
    /\ InitCommon

\* The operating system never leaves every thread unscheduled for ever: as
\* long as the main thread or some worker can take a step, a step is taken.
Fairness == WF_vars(NextConcurrent)

LiveSpec == InitConcurrent /\ [][NextConcurrent]_vars /\ Fairness

\* A concurrent local run followed by a compare in the same invocation.
InitRunCompare ==
    /\ tests \in TestLists
    /\ inputs_args = [i \in Tests |-> 1]
    /\ opt_tot_nprocs \in 1..MaxTot
    /\ cluster_queue = FALSE
    /\ verbose = TRUE
    /\ actions = {"run", "compare"}
    /\ test_file = [i \in Tests |-> [k \in 1..inputs_args[i] |-> FALSE]]
    /\ outcome = [i \in Tests |-> [k \in 1..inputs_args[i] |-> "failed"]]
    /\ AllBenchmarks
    /\ OneProgram
    /\ InitCommon

NextRunCompare ==
    \/ NextConcurrent
    \/ EndStatusRun
    \/ CompareEnter
    \/ CompareStep
    \/ EndStatusCompare
    \/ MainReturn

RunCompareSpec == InitRunCompare /\ [][NextRunCompare]_vars

\* A concurrent local run followed by make-benchmarks in the same invocation.
InitRunPromote ==
    /\ tests \in TestLists
    /\ inputs_args = [i \in Tests |-> 1]
    /\ opt_tot_nprocs \in 1..MaxTot
    /\ cluster_queue = FALSE
    /\ verbose = TRUE
    /\ actions = {"run", "make-benchmarks"}
    /\ test_file = [i \in Tests |-> [k \in 1..inputs_args[i] |-> FALSE]]
    /\ outcome = [i \in Tests |-> [k \in 1..inputs_args[i] |-> "failed"]]
    /\ AllBenchmarks
    /\ OneProgram
    /\ InitCommon

NextRunPromote ==
    \/ NextConcurrent
    \/ EndStatusRun
    \/ MakeBenchmarksEnter
    \/ MakeBenchmarksAnswer
    \/ MakeBenchmarksCreate
    \/ MainReturn

RunPromoteSpec == InitRunPromote /\ [][NextRunPromote]_vars

\* A contended concurrent run: one test more than MaxTests, each needing at
\* least one processor, and a budget that passes the validation of lines
\* 294-299 but cannot hold all the tests at once.
StallLists ==
    {t \in [1..MaxTests + 1 -> 1..MaxUnits] : SumSeq(t) <= MaxUnits}

InitStall ==
    /\ tests \in StallLists
    /\ inputs_args = [i \in Tests |-> 1]
    /\ opt_tot_nprocs \in MaxSeq(tests)..SumSeq(tests) - 1
    /\ cluster_queue = FALSE
    /\ verbose = TRUE
    /\ actions = {"run"}
    /\ test_file = [i \in Tests |-> [k \in 1..inputs_args[i] |-> FALSE]]
    /\ outcome = [i \in Tests |-> [k \in 1..inputs_args[i] |-> "failed"]]
    /\ AllBenchmarks
    /\ OneProgram
    /\ InitCommon

StallSpec == InitStall /\ [][NextConcurrent]_vars

\* main with a sequential run and/or a compare; the files of an earlier run
\* (same test_id) may exist only when 'run' is not among the actions.
SubRunCounts ==
    {f \in UNION {[1..n -> 1..MaxSubRuns] : n \in 1..MaxTests} : SumSeq(f) <= MaxSubRuns}

\* Offset(f, i): number of sub-runs of the tests before test i.
Offset(f, i) == SumSeq(SubSeq(f, 1, i - 1))

InitMain ==
    /\ inputs_args \in SubRunCounts
    /\ tests = [i \in 1..Len(inputs_args) |-> 0]
    /\ opt_tot_nprocs = DefaultTotNprocs
    /\ cluster_queue = FALSE
    /\ verbose \in BOOLEAN
    /\ actions \in {{"run"}, {"compare"}, {"run", "compare"}}
    /\ \E files \in [1..SumSeq(inputs_args) ->
                        IF "run" \in actions THEN {"absent"}
                                             ELSE Outcomes \cup {"absent"}] :
          /\ test_file = [i \in 1..Len(inputs_args) |-> [k \in 1..inputs_args[i] |->
                            files[Offset(inputs_args, i) + k] # "absent"]]
          /\ outcome = [i \in 1..Len(inputs_args) |-> [k \in 1..inputs_args[i] |->
                            IF files[Offset(inputs_args, i) + k] = "absent" THEN "failed"
                            ELSE files[Offset(inputs_args, i) + k]]]
    /\ AllBenchmarks
    /\ OneProgram
    /\ InitCommon

NextMain ==
    \/ RunTestsEnter
    \/ SeqCall
    \/ SeqReturn
    \/ SeqRaise
    \/ SkipRun
    \/ EndStatusRun
    \/ CompareEnter
    \/ CompareStep
    \/ EndStatusCompare
    \/ MainReturn

MainSpec == InitMain /\ [][NextMain]_vars

\* What an earlier run left of one sub-run: its output file (absent, or
\* present with the verdict a comparison gives) and whether its benchmark
\* file exists.
FileStates ==
    ({"absent"} \X BOOLEAN) \cup (Outcomes \X {TRUE}) \cup {<<"failed", FALSE>>}

\* main comparing and diffing the files of an earlier run.
InitFiles ==
    /\ inputs_args \in SubRunCounts
    /\ tests = [i \in 1..Len(inputs_args) |-> 0]
    /\ opt_tot_nprocs = DefaultTotNprocs
    /\ cluster_queue = FALSE
    /\ verbose = TRUE
    /\ actions = {"compare", "diff"}
    /\ \E files \in [1..SumSeq(inputs_args) -> FileStates] :
          /\ test_file = [i \in 1..Len(inputs_args) |-> [k \in 1..inputs_args[i] |->
                            files[Offset(inputs_args, i) + k][1] # "absent"]]
          /\ outcome = [i \in 1..Len(inputs_args) |-> [k \in 1..inputs_args[i] |->
                            IF files[Offset(inputs_args, i) + k][1] = "absent" THEN "failed"
                            ELSE files[Offset(inputs_args, i) + k][1]]]
          /\ bench_file = [i \in 1..Len(inputs_args) |-> [k \in 1..inputs_args[i] |->
                            files[Offset(inputs_args, i) + k][2]]]
    /\ OneProgram
    /\ InitCommon

NextFiles ==
    \/ SkipRun
    \/ CompareEnter
    \/ CompareStep
    \/ EndStatusCompare
    \/ DiffEnter
    \/ DiffStep
    \/ MainReturn

FilesSpec == InitFiles /\ [][NextFiles]_vars

\* compare_tests called twice in a row on the files of an earlier run.
InitCompareTwice ==
    /\ inputs_args \in SubRunCounts
    /\ tests = [i \in 1..Len(inputs_args) |-> 0]
    /\ opt_tot_nprocs = DefaultTotNprocs
    /\ cluster_queue = FALSE
    /\ verbose = TRUE
    /\ actions = {"compare"}
    /\ \E files \in [1..SumSeq(inputs_args) -> Outcomes \cup {"absent"}] :
          /\ test_file = [i \in 1..Len(inputs_args) |-> [k \in 1..inputs_args[i] |->
                            files[Offset(inputs_args, i) + k] # "absent"]]
          /\ outcome = [i \in 1..Len(inputs_args) |-> [k \in 1..inputs_args[i] |->
                            IF files[Offset(inputs_args, i) + k] = "absent" THEN "failed"
                            ELSE files[Offset(inputs_args, i) + k]]]
    /\ AllBenchmarks
    /\ OneProgram
    /\ InitCommon

NextCompareTwice ==
    \/ SkipRun
    \/ CompareEnter
    \/ CompareStep
    \/ CompareAgain

CompareTwiceSpec == InitCompareTwice /\ [][NextCompareTwice]_vars

\* main comparing the files of an earlier run and making new benchmarks:
\* up to MaxPrograms programs in userconfig, each with or without a vcs,
\* and tests (one sub-run each) of any of them.
InitLabel ==
    /\ tests \in UNION {[1..n -> {0}] : n \in 1..MaxTests}
    /\ inputs_args = [i \in Tests |-> 1]
    /\ opt_tot_nprocs = DefaultTotNprocs
    /\ cluster_queue = FALSE
    /\ verbose = TRUE
    /\ actions = {"compare", "make-benchmarks"}
    /\ test_file = [i \in Tests |-> [k \in 1..inputs_args[i] |-> TRUE]]
    /\ outcome \in [Tests -> [1..1 -> Outcomes]]
    /\ AllBenchmarks
    /\ test_programs \in UNION {[1..n -> BOOLEAN] : n \in 1..MaxPrograms}
    /\ test_program \in [Tests -> DOMAIN test_programs]
    /\ InitCommon

NextLabel ==
    \/ SkipRun
    \/ CompareEnter
    \/ CompareStep
    \/ EndStatusCompare
    \/ MakeBenchmarksEnter
    \/ MakeBenchmarksAnswer
    \/ MakeBenchmarksCreate
    \/ MainReturn

LabelSpec == InitLabel /\ [][NextLabel]_vars

\* lines 133 and 184-189: the action lists main works with; 'run' is added
\* when none of run and compare comes with make-benchmarks (tidy left out)
ActionSets ==
    {a \in SUBSET {"run", "compare", "diff", "make-benchmarks"} :
        /\ a # {}
        /\ "make-benchmarks" \in a => ("run" \in a \/ "compare" \in a)}

\* main with any of these action lists, a sequential run, every benchmark
\* file in place and one program.
InitPipeline ==
    /\ inputs_args \in SubRunCounts
    /\ tests = [i \in 1..Len(inputs_args) |-> 0]
    /\ opt_tot_nprocs = DefaultTotNprocs
    /\ cluster_queue = FALSE
    /\ verbose = TRUE
    /\ actions \in ActionSets
    /\ \E files \in [1..SumSeq(inputs_args) ->
                        IF "run" \in actions THEN {"absent"}
                                             ELSE Outcomes \cup {"absent"}] :
          /\ test_file = [i \in 1..Len(inputs_args) |-> [k \in 1..inputs_args[i] |->
                            files[Offset(inputs_args, i) + k] # "absent"]]
          /\ outcome = [i \in 1..Len(inputs_args) |-> [k \in 1..inputs_args[i] |->
                            IF files[Offset(inputs_args, i) + k] = "absent" THEN "failed"
                            ELSE files[Offset(inputs_args, i) + k]]]
    /\ AllBenchmarks
    /\ OneProgram
    /\ InitCommon

NextPipeline ==
    \/ RunTestsEnter
    \/ SeqCall
    \/ SeqReturn
    \/ SeqRaise
    \/ SkipRun
    \/ EndStatusRun
    \/ CompareEnter
    \/ CompareStep
    \/ EndStatusCompare
    \/ DiffEnter
    \/ DiffStep
    \/ MakeBenchmarksEnter
    \/ MakeBenchmarksAnswer
    \/ MakeBenchmarksCreate
    \/ MainReturn

PipelineSpec == InitPipeline /\ [][NextPipeline]_vars

\* ================================================================ claims
Concurrent == mainpc \in {"start", "join"}
Executing(i) == pc[i] = "run"
Finished(i) == pc[i] \in {"done", "dead"}
\* between its first and its last unit acquisition
Partial(i) == pc[i] = "acq" /\ 0 < acquired[i] /\ acquired[i] < nprocs_used(i)
\* inside semaphore.acquire() with no unit left in the gate
BlockedOnGate(i) == pc[i] = "acq" /\ acquired[i] < nprocs_used(i) /\ semaphore = 0
Untouched == /\ \A i \in Tests : pc[i] = "new" /\ get_status(i) = NoStatus
             /\ semaphore = -1

RECURSIVE SumOver(_, _)
SumOver(S, f) == IF S = {} THEN 0
                 ELSE LET x == CHOOSE y \in S : TRUE IN f[x] + SumOver(S \ {x}, f)

Max1 == [i \in Tests |-> IF tests[i] > 1 THEN tests[i] ELSE 1]
ExecutingSet == {i \in Tests : Executing(i)}

\* C1: in a concurrent run the nprocs (and the max(1, nprocs) units) of the
\* tests whose run_test is in progress never add up to more than tot_nprocs,
\* so two tests that do not fit the budget together never execute together.
C1_BudgetRespected ==
    Concurrent =>
        /\ SumOver(ExecutingSet, tests) <= tot_nprocs
        /\ SumOver(ExecutingSet, Max1) <= tot_nprocs
        /\ \A i, j \in Tests :
               (i # j /\ Executing(i) /\ Executing(j)) => Max1[i] + Max1[j] <= tot_nprocs

\* C1 witness: scenario B, nprocs [2,3] with budget 3: the first test executes
\* while the second is blocked in its request for units.
C1_Witness ==
    /\ tests = <<2, 3>> /\ opt_tot_nprocs = 3
    /\ Executing(1) /\ BlockedOnGate(2)

\* C2 as stated: for every totalProcessors value, a test with
\* nprocs > totalProcessors makes run_tests fail before anything is executed.
C2_AnyTotalFailsFast ==
    (\E i \in Tests : tests[i] > opt_tot_nprocs) => (mainpc \in {"main", "fatal"} /\ Untouched)

\* the budget run_tests enforces (lines 288-292); 0 or less: none
EnforcedBudget == IF opt_tot_nprocs <= 0 /\ cluster_queue THEN SumOver(Tests, tests)
                  ELSE opt_tot_nprocs

\* C2 amended: when a budget is enforced (tot_nprocs > 0 after line 290) and
\* some test has nprocs above it, run_tests raises TestCodeError before any
\* worker is started, any run_test is called or any status is changed.
C2_FailFast ==
    (EnforcedBudget > 0 /\ \E i \in Tests : tests[i] > EnforcedBudget)
        => (mainpc \in {"main", "fatal"} /\ Untouched)

\* C2 witness: scenario C, budget 1 and one test with nprocs 2: fatal error.
C2_Witness == tests = <<2>> /\ opt_tot_nprocs = 1 /\ mainpc = "fatal" /\ Untouched

\* C3: under fair scheduling a concurrent run that passed the validation (did
\* not end in the fatal error) never gets stuck: unless some run_test raised
\* instead of returning, eventually every worker has got its units, executed,
\* released them and finished, and run_tests has returned.
C3_DeadlockFree ==
    <>(\/ mainpc = "fatal"
       \/ mainpc = "ran" /\ \A i \in Tests : pc[i] = "done" /\ acquired[i] = 0
       \/ \E i \in Tests : pc[i] = "dead")

\* C3 witness: two differently sized requests that do not fit together
\* (nprocs [2,3], budget 4) both went through the gate and run_tests returned.
C3_Witness ==
    /\ tests = <<2, 3>> /\ opt_tot_nprocs = 4
    /\ mainpc = "ran" /\ \A i \in Tests : pc[i] = "done"

\* C4: while a worker is between its first and its last unit acquisition no
\* other worker is in the request phase, so no other worker acquires a unit
\* and no two workers hold a partial allocation.
C4_AtomicRequest ==
    \A i, j \in Tests : (i # j /\ Partial(i)) => (pc[j] # "acq" /\ slock = i)

\* C4 witness: a worker holds part of its units while another worker that was
\* started waits for the request lock.
C4_Witness == \E i, j \in Tests : i # j /\ Partial(i) /\ pc[j] = "lock"

\* C5 as stated: a worker whose external execution ended, by returning or by
\* raising, holds no unit once it has ended.
C5_ReleasedOnEveryExit == \A i \in Tests : Finished(i) => acquired[i] = 0

\* C6 as stated: whatever way a test's external execution failed, once
\* run_tests is over (returned or left by an exception) every test of the
\* list has been executed.
C6_OthersStillRun ==
    mainpc \in {"ran", "aborted", "at_compare", "exit"} => \A j \in Tests : Finished(j)

\* C7: when the budget covers all requests at once, no worker ever finds the
\* gate empty: nobody waits for another test's execution to complete.
C7_NeverSerialized ==
    (Concurrent /\ SumOver(Tests, Max1) <= tot_nprocs)
        => \A i \in Tests : ~BlockedOnGate(i)

\* C7 witness: scenario A, nprocs [2,3] with budget 5: both tests execute at
\* the same time.
C7_Witness ==
    /\ tests = <<2, 3>> /\ opt_tot_nprocs = 5
    /\ Executing(1) /\ Executing(2)

\* C8 as stated: in cluster mode with tot_nprocs <= 0 the budget is the sum
\* of the tests' nprocs and no worker ever blocks on the gate.
C8_ClusterAdmitsAll ==
    (cluster_queue /\ opt_tot_nprocs <= 0 /\ mainpc # "main")
        => /\ tot_nprocs = SumOver(Tests, tests)
           /\ \A i \in Tests : ~BlockedOnGate(i)

\* C9: in sequential mode no gate and no lock exist, at most one test is
\* executing, and a test is called only after all tests before it in the
\* list have returned.
C9_SequentialInOrder ==
    (opt_tot_nprocs <= 0 /\ ~cluster_queue) =>
        /\ semaphore = -1 /\ slock = 0 /\ ~Concurrent
        /\ \A i \in Tests : acquired[i] = 0 /\ pc[i] \in {"new", "run", "done", "dead"}
        /\ Cardinality(ExecutingSet) <= 1
        /\ \A i, j \in Tests : (i < j /\ pc[j] # "new") => pc[i] = "done"

\* C9 witness: the second test executes after the first, larger one returned.
C9_Witness ==
    /\ opt_tot_nprocs <= 0 /\ ~cluster_queue
    /\ tests = <<3, 2>> /\ pc = <<"done", "run">>

Total(k) == SumOver(Tests, Column(k))

\* C10: the value main returns after a run or a compare is 0 exactly when
\* passed + warned = ran over all tests, whatever verbose and the skip count.
C10_ExitCodeLaw ==
    (\/ mainpc \in {"at_diff", "exit"}
     \/ mainpc = "at_compare" /\ "run" \in actions)
        => /\ ret_val \in {0, 1}
           /\ ret_val = 0 <=> Total(1) + Total(2) = Total(3)

\* C10 witness: a quiet compare that skipped a sub-run and met a warning
\* returns 0.
C10_Witness ==
    /\ mainpc = "exit" /\ ~verbose /\ nskipped > 0
    /\ Total(2) > 0 /\ Total(3) > 0 /\ ret_val = 0

\* C19 as stated: the workers go through the gate in list order: whenever a
\* worker holds a unit or is past its request, the worker of every test
\* before it in the list has completed its own request.
C19_ListOrderAcquisition ==
    \A i, j \in Tests :
        (i < j /\ (acquired[j] > 0 \/ pc[j] \in {"run", "rel", "done", "dead"}))
            => pc[i] \in {"run", "rel", "done", "dead"}

\* holds the request lock and has not got all its units yet
Requesting(i) == pc[i] = "acq" /\ acquired[i] < nprocs_used(i)

\* C20: no backfill: while a worker holds the request lock and still waits
\* for units, no other worker acquires a unit or starts its execution, however
\* small its request; the others go on only after it has got all its units.
C20_NoBackfill ==
    [][\A i \in Tests : Requesting(i) =>
          \A j \in Tests \ {i} : /\ acquired'[j] <= acquired[j]
                                  /\ pc'[j] = "run" => pc[j] = "run"]_vars

\* C20 witness: a worker holds the lock and needs more units than are free,
\* while a started worker waiting for the lock needs no more than are free.
C20_Witness ==
    \E i, j \in Tests :
        /\ i # j /\ Requesting(i) /\ pc[j] = "lock"
        /\ nprocs_used(i) - acquired[i] > semaphore
        /\ semaphore > 0 /\ nprocs_used(j) <= semaphore

C12_WrittenOnceByItsWorker ==
    \A i \in Tests : writes[i] \in {<<>>, <<i>>}

\* C12 amended: during run_tests a test's status is written once, by the
\* worker that executes that test's run_test and as the last part of that
\* execution; a compare of the same invocation writes it again, from the main
\* thread, and only when every worker thread has ended, so two threads are
\* never writing a test's status at the same time.
C12_NoConcurrentWriters ==
    /\ [](\A i \in Tests :
            /\ (Concurrent /\ pc[i] \in {"new", "lock", "acq", "run"}) => writes[i] = <<>>
            /\ (Concurrent /\ pc[i] \in {"rel", "done"}) => writes[i] = <<i>>
            /\ writes[i] \in {<<>>, <<i>>, <<i, 0>>}
            /\ mainpc = "comparing" => Finished(i))
    /\ [][\A i \in Tests : (status'[i] # status[i] \/ writes'[i] # writes[i]) =>
            \/ /\ Executing(i) /\ pc'[i] = "rel"
               /\ writes'[i] = Append(writes[i], i)
            \/ /\ mainpc = "comparing" /\ cmp[1] = i
               /\ \A j \in Tests : Finished(j)
               /\ writes'[i] = Append(writes[i], 0)]_vars

\* C12 witness: the status a worker wrote at the end of its execution was
\* written again by the compare, after both workers had ended.
C12_Witness ==
    /\ N = 2 /\ mainpc = "exit"
    /\ \A i \in Tests : pc[i] = "done" /\ writes[i] = <<i, 0>>

SubRuns == {<<t, k>> \in Tests \X (1..MaxSubRuns) : k <= inputs_args[t]}
HasOutput == {sr \in SubRuns : test_file[sr[1]][sr[2]]}
HasBenchmark == {sr \in SubRuns : bench_file[sr[1]][sr[2]]}

\* C13: in a compare, a sub-run whose output file does not exist adds exactly
\* one to the skip count, is not handed to verify_job and leaves every status
\* as it was; the exit code is 1 only if a verified sub-run failed, so skipped
\* sub-runs never make it non-zero.
C13_MissingOutputSkipped ==
    /\ [][(mainpc = "comparing" /\ cmp \notin HasOutput) =>
             /\ nskipped' = nskipped + 1
             /\ verified' = verified
             /\ status' = status /\ writes' = writes]_vars
    /\ [](mainpc \in {"compared", "at_diff"} =>
             /\ nskipped = Cardinality(SubRuns \ HasOutput)
             /\ verified \cap (SubRuns \ HasOutput) = {}
             /\ \A sr \in SubRuns \ HasOutput : status[sr[1]][sr[2]] = "none")
    /\ [](mainpc = "at_diff" =>
             (ret_val = 1 <=> \E sr \in verified : status[sr[1]][sr[2]] = "failed"))

\* C13 witness: scenario D, a compare that skipped a sub-run, verified
\* another one and returned 0.
C13_Witness ==
    /\ mainpc = "at_diff" /\ nskipped > 0 /\ verified # {} /\ ret_val = 0

\* C14 as stated: in a compare, verify_job is called only for sub-runs whose
\* output file and benchmark file both exist, and a sub-run without its
\* benchmark file is counted as skipped.
C14_ComparatorNeedsBothFiles ==
    /\ verified \subseteq (HasOutput \cap HasBenchmark)
    /\ mainpc \in {"compared", "at_diff"} =>
           nskipped = Cardinality(SubRuns \ (HasOutput \cap HasBenchmark))

\* C14 amended: in a compare, verify_job is called for a sub-run exactly when
\* its output file exists, whether its benchmark file exists or not; only the
\* sub-runs without output file are counted as skipped.
C14_ComparatorNeedsOutputOnly ==
    /\ verified \subseteq HasOutput
    /\ mainpc \in {"compared", "at_diff"} =>
           /\ verified = HasOutput
           /\ nskipped = Cardinality(SubRuns \ HasOutput)

\* C14 witness: a finished compare called verify_job for a sub-run whose
\* benchmark file is missing, and skipped nothing.
C14_Witness ==
    /\ mainpc = "at_diff" /\ nskipped = 0
    /\ \E sr \in verified : sr \notin HasBenchmark

C16_DiffReadOnly ==
    /\ [][mainpc = "diffing" =>
             /\ status' = status /\ writes' = writes
             /\ test_file' = test_file /\ nskipped' = nskipped
             /\ ret_val' = ret_val]_vars
    /\ [](diffed \subseteq (HasOutput \cap HasBenchmark))
    /\ [](mainpc = "at_mb" => diffed = HasOutput \cap HasBenchmark)

\* C16 witness: a finished diff ran the diff program for one sub-run and left
\* out one without output file and one without benchmark file.
C16_Witness ==
    /\ mainpc = "at_mb" /\ diffed # {}
    /\ \E sr \in SubRuns : sr \in HasOutput /\ sr \notin HasBenchmark
    /\ \E sr \in SubRuns : sr \notin HasOutput /\ sr \in HasBenchmark

\* new benchmarks were made in this invocation
Promoted == created # {} \/ userconfig # OldBenchmark \/ benchmark # <<>>

\* C17: make_benchmarks creates benchmarks and rewrites userconfig only if
\* passed = ran over all tests or the operator answered y; it asks only if
\* passed # ran, and after the answer n nothing has happened: no code id was
\* obtained, no benchmark created, no label made, userconfig left as it was.
C17_PromotionGuarded ==
    /\ Promoted => (Total(1) = Total(3) \/ ans = "y")
    /\ ans # "" => Total(1) # Total(3)
    /\ ans = "n" => (~Promoted /\ vcs = <<>> /\ mainpc \in {"mb_none", "exit"})
    /\ mainpc = "mb_done" => (created = Tests /\ userconfig = benchmark)

\* C17 witness: scenario E, 3 of 4 sub-runs passed and the operator declined:
\* main returned with nothing changed.
C17_Witness ==
    /\ mainpc = "exit" /\ "make-benchmarks" \in actions
    /\ SumSeq(inputs_args) = 4 /\ Total(1) = 3 /\ Total(3) = 4
    /\ ans = "n" /\ ~Promoted /\ vcs = <<>>

UsedPrograms == {test_program[i] : i \in Tests}

\* the label has one key-id item for every program of the set S, and no other
ItemPerProgram(S) ==
    /\ Len(benchmark) = 2 * Cardinality(S)
    /\ \A p \in S : \E n \in 1..Cardinality(S) :
           benchmark[2 * n - 1] = p /\ benchmark[2 * n] = vcs[p]

\* C18 as stated: the new label is the one code id when the promoted tests
\* belong to one program, and else has one key-id item per program of the
\* promoted tests.
C18_LabelOfProgramsOfTests ==
    mainpc = "mb_done" =>
        IF Cardinality(UsedPrograms) = 1
        THEN benchmark = <<vcs[test_program[1]]>>
        ELSE ItemPerProgram(UsedPrograms)

\* C18 amended: the new label is the one code id when userconfig defines
\* exactly one program, and else has one key-id item for every program
\* userconfig defines, used by a promoted test or not; each code id is what
\* the program's vcs reports when it has one and what the operator typed
\* otherwise.
C18_LabelOfAllPrograms ==
    mainpc = "mb_done" =>
        /\ DOMAIN vcs = Programs
        /\ \A p \in Programs : IF test_programs[p] THEN vcs[p] = get_code_id(p)
                                ELSE vcs[p] \in ManualIds
        /\ IF Cardinality(Programs) = 1 THEN benchmark = <<vcs[1]>>
           ELSE ItemPerProgram(Programs)
        /\ userconfig = benchmark

\* C18 witness: two programs, one under a vcs and one not, all tests of the
\* first one: the label has an item for each of the two programs.
C18_Witness ==
    /\ mainpc = "mb_done"
    /\ test_programs = <<TRUE, FALSE>> /\ UsedPrograms = {1}
    /\ Len(benchmark) = 4 /\ vcs[1] = get_code_id(1) /\ vcs[2] \in ManualIds

\* C21: a worker holds the request lock only while it is in its request
\* phase (lines 276-281): never while its run_test is in progress, while it
\* releases its units or after it has ended; so the lock stops neither the
\* execution of another test nor the release of a finished one.
C21_LockOnlyInRequest ==
    /\ slock # 0 => (slock \in Tests /\ pc[slock] = "acq")
    /\ \A i \in Tests : pc[i] \in {"run", "rel", "done", "dead"} => slock # i

\* C21 witness: one worker holds the lock, blocked in its request, while
\* another one, past its execution, is releasing its units.
C21_Witness ==
    \E i, j \in Tests :
        /\ i # j /\ slock = j /\ BlockedOnGate(j)
        /\ pc[i] = "rel" /\ acquired[i] > 0

\* C23: in a concurrent run the free units and the units the workers hold
\* always add up to tot_nprocs, with 0 <= free <= tot_nprocs; a worker holds
\* its max(1, nprocs) units while it executes, gives back exactly those (the
\* bounded semaphore never refuses a release: a worker ends dead only by
\* its run_test raising, with all its units), holds none once done, and when
\* every worker is done the gate is full again.
C23_UnitConservation ==
    semaphore # -1 =>
        /\ semaphore + SumOver(Tests, acquired) = tot_nprocs
        /\ 0 <= semaphore /\ semaphore <= tot_nprocs
        /\ \A i \in Tests :
               /\ 0 <= acquired[i] /\ acquired[i] <= nprocs_used(i)
               /\ pc[i] \in {"new", "lock", "done"} => acquired[i] = 0
               /\ pc[i] \in {"run", "dead"} => acquired[i] = nprocs_used(i)
               /\ pc[i] = "rel" => acquired[i] > 0
        /\ (\A i \in Tests : pc[i] = "done") => semaphore = tot_nprocs

\* C23 witness: a serial test (nprocs 0, one unit) and a test with nprocs 2
\* went through a gate of 2 units one after the other; the gate is full.
C23_Witness ==
    /\ tests = <<0, 2>> /\ tot_nprocs = 2 /\ mainpc = "ran"
    /\ \A i \in Tests : pc[i] = "done"
    /\ semaphore = 2

\* main is past run_tests: at end_status, in make_benchmarks or at its return
AfterRunTests ==
    mainpc \in {"ran", "at_compare", "mb_ask", "mb_vcs", "mb_none", "mb_done", "exit"}

\* C22: run_tests returns only after every worker thread has ended, so when
\* end_status and make_benchmarks read the status triples no test is
\* pending, requesting, executing or releasing, and from the return of
\* run_tests on no status changes any more.
C22_ReadAfterJoin ==
    /\ [](AfterRunTests => \A i \in Tests : Finished(i))
    /\ [][AfterRunTests => status' = status]_vars

\* C22 witness: two tests were executed by their workers, end_status has
\* read their statuses and make_benchmarks has promoted their outputs.
C22_Witness ==
    /\ mainpc = "mb_done" /\ N = 2
    /\ \A i \in Tests : pc[i] = "done" /\ writes[i] = <<i>>
    /\ ret_val \in {0, 1}
    /\ created # {}

====
